---- MODULE Spec2Model ----
(***************************************************************************)
(* Model of .github/actions/deploy-notify/notify.py: the deploy            *)
(* notification step.  One run of main() is a linear pipeline: read the    *)
(* environment, read the push event file, list commits with git log,       *)
(* build the message (failure notice, deterministic success copy or        *)
(* model-written success copy) and POST it to the Discord webhook.         *)
(*                                                                         *)
(* Python str values are TLA+ strings.  Four characters of the source      *)
(* cannot be written in a TLA+ string and are represented by one ASCII     *)
(* character each, so that every length is preserved:                      *)
(*   US        "^"  for "\x1f" (the git log field separator, %x1f)         *)
(*   BULLET    "@"  for U+2022 (the bullet)                                *)
(*   EMDASH    "~"  for U+2014 (the dash of the failure notice)            *)
(*   BACKQUOTE "$"  for U+0060 (the backquote of code spans and fences)    *)
(* None of the four stand-ins occurs in any other role in the model.       *)
(***************************************************************************)
EXTENDS Integers, Sequences, FiniteSets, TLC

US == "^"
BULLET == "@"
EMDASH == "~"
BACKQUOTE == "$"
FENCE == BACKQUOTE \o BACKQUOTE \o BACKQUOTE

-----------------------------------------------------------------------------
(* Python str built-ins, computed character by character.                  *)

Char(s, i) == SubSeq(s, i, i)

Min(a, b) == IF a < b THEN a ELSE b

(* str.isspace on one character: the ASCII whitespace of Python's str,     *)
(* which includes the separators \x1c..\x1f, hence US.                     *)
Spaces == {" ", "\t", "\n", "\r", "\f", US}
IsSpace(c) == c \in Spaces

(* The line boundaries of str.splitlines that the model can write. *)
LineBreaks == {"\n", "\r", "\f"}

Digits == {"0", "1", "2", "3", "4", "5", "6", "7", "8", "9"}
IsDigit(c) == c \in Digits

UPPER == "ABCDEFGHIJKLMNOPQRSTUVWXYZ"
LOWER == "abcdefghijklmnopqrstuvwxyz"

UpperLetters == {Char(UPPER, i) : i \in 1..26}
LowerLetters == {Char(LOWER, i) : i \in 1..26}

IsUpper(c) == c \in UpperLetters
IsLower(c) == c \in LowerLetters

ToLower == [c \in UpperLetters |-> Char(LOWER, CHOOSE i \in 1..26 : Char(UPPER, i) = c)]
ToUpper == [c \in LowerLetters |-> Char(UPPER, CHOOSE i \in 1..26 : Char(LOWER, i) = c)]

LowerChar(c) == IF IsUpper(c) THEN ToLower[c] ELSE c

UpperChar(c) == IF IsLower(c) THEN ToUpper[c] ELSE c

(* str.lower(), by halves *)
RECURSIVE Lower(_)
Lower(s) ==
    IF Len(s) <= 1 THEN LowerChar(s)
    ELSE LET h == Len(s) \div 2
         IN  Lower(SubSeq(s, 1, h)) \o Lower(SubSeq(s, h + 1, Len(s)))

(* str.capitalize: first character upper-cased, the rest lower-cased. *)
Capitalize(s) == IF s = "" THEN "" ELSE UpperChar(Head(s)) \o Lower(Tail(s))

RECURSIVE LStrip(_)
LStrip(s) == IF s # "" /\ IsSpace(Head(s)) THEN LStrip(Tail(s)) ELSE s

RECURSIVE RStrip(_)
RStrip(s) ==
    IF s # "" /\ IsSpace(Char(s, Len(s))) THEN RStrip(SubSeq(s, 1, Len(s) - 1)) ELSE s

(* str.strip() *)
Strip(s) == RStrip(LStrip(s))

StartsWith(s, p) == Len(s) >= Len(p) /\ SubSeq(s, 1, Len(p)) = p

EndsWith(s, p) == Len(s) >= Len(p) /\ SubSeq(s, Len(s) - Len(p) + 1, Len(s)) = p

(* p in s *)
Contains(s, p) == \E i \in 1..(Len(s) - Len(p) + 1) : SubSeq(s, i, i + Len(p) - 1) = p

(* s[:n] for n >= 0 *)
Prefix(s, n) == SubSeq(s, 1, Min(n, Len(s)))

(* s * n *)
RECURSIVE Repeat(_, _)
Repeat(s, n) ==
    IF n = 0 THEN ""
    ELSE LET h == Repeat(s, n \div 2)
         IN  IF n % 2 = 0 THEN h \o h ELSE h \o h \o s

(* The first position of s whose character is one of chars, 0 if none *)
FirstIndex(s, chars) ==
    LET hits == {i \in 1..Len(s) : Char(s, i) \in chars}
    IN  IF hits = {} THEN 0 ELSE CHOOSE i \in hits : \A j \in hits : i <= j

(* str.split(sep) for a one-character sep: always at least one part. *)
RECURSIVE Split(_, _)
Split(s, sep) ==
    LET at == FirstIndex(s, {sep})
    IN  IF at = 0 THEN <<s>>
        ELSE <<SubSeq(s, 1, at - 1)>> \o Split(SubSeq(s, at + 1, Len(s)), sep)

(* str.splitlines(): "\r\n" is one boundary, and no empty last line. *)
RECURSIVE SplitLines(_)
SplitLines(s) ==
    LET at == FirstIndex(s, LineBreaks)
        skip == IF StartsWith(SubSeq(s, at, Len(s)), "\r\n") THEN 2 ELSE 1
        rest == SubSeq(s, at + skip, Len(s))
    IN  IF s = "" THEN <<>>
        ELSE IF at = 0 THEN <<s>>
        ELSE <<SubSeq(s, 1, at - 1)>> \o SplitLines(rest)

(* sep.join(parts) *)
RECURSIVE Join(_, _)
Join(sep, parts) ==
    IF parts = <<>> THEN ""
    ELSE IF Len(parts) = 1 THEN parts[1]
    ELSE parts[1] \o sep \o Join(sep, Tail(parts))

(* x in seq *)
InSeq(x, seq) == \E i \in 1..Len(seq) : seq[i] = x

-----------------------------------------------------------------------------
(* Values decoded by json.loads, tagged by their Python type.              *)

JNull == [t |-> "null"]
JNum(n) == [t |-> "num", n |-> n]
JStr(s) == [t |-> "str", s |-> s]
JList(items) == [t |-> "list", items |-> items]
(* A dict is a record: DOMAIN gives its keys. *)
JDict(d) == [t |-> "dict", d |-> d]
EmptyDict == JDict([x \in {} |-> JNull])

IsStr(j) == j.t = "str"
IsDict(j) == j.t = "dict"
IsList(j) == j.t = "list"

(* dict.get(key), None when the key is missing *)
Get(j, key) == IF key \in DOMAIN j.d THEN j.d[key] ELSE JNull

(* "x or []" as used on response.get(...): a falsy value becomes [] *)
Falsy(j) ==
    \/ j.t = "null"
    \/ j.t = "str" /\ j.s = ""
    \/ j.t = "list" /\ j.items = <<>>
    \/ j.t = "dict" /\ DOMAIN j.d = {}
    \/ j.t = "num" /\ j.n = 0

-----------------------------------------------------------------------------
(* Results of calls that may raise: either a value or an exception name.   *)

Ok(v) == [exc |-> "none", val |-> v]
Raise(e) == [exc |-> e, val |-> ""]

-----------------------------------------------------------------------------
(* Configuration / context loader                                          *)

META_KEYWORDS ==
    <<"deploy", "workflow", "actions", "ci", "discord", "webhook", "runner", "pipeline">>

(* env without the final strip() *)
env_unstripped(environ, name, default) ==
    LET v == environ[name]
    IN  IF v = "" THEN default ELSE v

(* env(name, default): (os.getenv(name) or default).strip().  An unset      *)
(* variable (None) and an empty one are both falsy and both replaced by    *)
(* the default, so the environment maps an unset name to "".               *)
env(environ, name, default) ==
    LET v == environ[name]
    IN  Strip(IF v = "" THEN default ELSE v)

RECURSIVE DigitsValue(_, _)
DigitsValue(s, acc) ==
    IF s = "" THEN acc
    ELSE DigitsValue(Tail(s),
                     10 * acc + (CHOOSE d \in 0..9 : Char("0123456789", d + 1) = Head(s)))

IsDigits(s) == s # "" /\ \A i \in 1..Len(s) : IsDigit(Char(s, i))

(* to_int(value, default): int(value), the default when int() raises.      *)
(* The values modelled are unsigned decimal numerals or not numerals.      *)
to_int(value, default) == IF IsDigits(value) THEN DigitsValue(value, 0) ELSE default

(* The event file as the file system presents it to read_event_before_sha: *)
(* missing, or present with a text that json.loads rejects (or that cannot *)
(* be read), or present with a text that decodes to a JSON value.          *)
FileMissing == [exists |-> FALSE]
FileGarbage == [exists |-> TRUE, valid |-> FALSE]
FileJson(j) == [exists |-> TRUE, valid |-> TRUE, json |-> j]

(* read_event_before_sha(): the "before" field of the event payload.       *)
(* payload.get is called outside the try block, on whatever json.loads     *)
(* returned: a payload that is not a dict has no .get (AttributeError).    *)
read_event_before_sha(environ, event_file) ==
    LET event_path == env(environ, "GITHUB_EVENT_PATH", "")
    IN  IF event_path = "" THEN Ok("")
        ELSE IF ~event_file.exists THEN Ok("")
        ELSE IF ~event_file.valid THEN Ok("")
        ELSE LET payload == event_file.json
             IN  IF ~IsDict(payload) THEN Raise("AttributeError")
                 ELSE LET before == Get(payload, "before")
                      IN  Ok(IF IsStr(before) THEN Strip(before.s) ELSE "")

(* read_soul(style_file_input, action_path): the first candidate that      *)
(* exists and can be read (a file whose read_text raises is skipped).      *)
read_soul(style_file_input, style_file, soul_file) ==
    LET candidates == (IF style_file_input # "" THEN <<style_file>> ELSE <<>>) \o <<soul_file>>
        readable == SelectSeq(candidates, LAMBDA f : f.exists /\ f.valid)
    IN  IF readable = <<>> THEN "" ELSE readable[1].text

-----------------------------------------------------------------------------
(* Commit collector                                                        *)

ZeroSha == Repeat("0", 40)

(* RevExpr without the test against the all-zero SHA *)
RevExpr_no_sentinel(before_sha, after_sha) ==
    LET has_before == before_sha # ""
        has_after == after_sha # ""
    IN  IF has_before /\ has_after THEN before_sha \o ".." \o after_sha
        ELSE IF has_after THEN after_sha
        ELSE "HEAD"

(* build_commits, lines 55-64: the revision expression given to git log *)
RevExpr(before_sha, after_sha) ==
    LET zero == ZeroSha
        has_before == before_sha # "" /\ before_sha # zero
        has_after == after_sha # ""
    IN  IF has_before /\ has_after THEN before_sha \o ".." \o after_sha
        ELSE IF has_after THEN after_sha
        ELSE "HEAD"

(* The git log process: it fails (check_output raises) or prints stdout. *)
GitFailed == [failed |-> TRUE]
GitPrinted(out) == [failed |-> FALSE, stdout |-> out]

(* git(args): subprocess.check_output(...).strip() *)
git(proc) == IF proc.failed THEN Raise("CalledProcessError") ELSE Ok(Strip(proc.stdout))

CommitRecord(parts) ==
    [short_sha |-> Strip(parts[1]), subject |-> Strip(parts[2]), author |-> Strip(parts[3])]

(* build_commits, lines 66-90: parse the log output into commit records *)
ParseLog(raw) ==
    LET lines == SplitLines(raw)
        parts == [i \in 1..Len(lines) |-> Split(lines[i], US)]
        kept == SelectSeq(parts, LAMBDA p : Len(p) = 3)
    IN  [i \in 1..Len(kept) |-> CommitRecord(kept[i])]

build_commits(proc) ==
    LET res == git(proc)
        raw == IF res.exc # "none" THEN "" ELSE res.val
    IN  ParseLog(raw)

(* commit_url(repo, after_sha) *)
commit_url(repo, after_sha) ==
    IF repo # "" /\ after_sha # ""
    THEN "https://github.com/" \o repo \o "/commit/" \o after_sha
    ELSE ""

(* normalize_repo_name(repo) *)
normalize_repo_name(repo) ==
    LET parts == Split(repo, "/")
        short == IF repo # "" THEN parts[Len(parts)] ELSE "repo"
        dashed == Join("-", Split(short, "_"))
        pieces == SelectSeq(Split(dashed, "-"), LAMBDA p : p # "")
    IN  IF pieces # <<>> THEN Join(" ", [i \in 1..Len(pieces) |-> Capitalize(pieces[i])])
        ELSE short

-----------------------------------------------------------------------------
(* Narrative generator                                                     *)

HasMetaKeyword(subject) ==
    LET lowered == Lower(subject)
    IN  \E k \in 1..Len(META_KEYWORDS) : Contains(lowered, META_KEYWORDS[k])

(* select_notable_subjects without the meta-keyword filter *)
select_notable_subjects_unfiltered(commits, limit) ==
    LET all == [i \in 1..Len(commits) |-> commits[i].subject]
        subjects == SelectSeq(all, LAMBDA x : x # "")
    IN  SubSeq(subjects, 1, Min(limit, Len(subjects)))

(* select_notable_subjects(commits, limit) *)
select_notable_subjects(commits, limit) ==
    LET all == [i \in 1..Len(commits) |-> commits[i].subject]
        subjects == SelectSeq(all, LAMBDA x : x # "")
        non_meta == SelectSeq(subjects, LAMBDA x : ~HasMetaKeyword(x))
    IN  IF subjects = <<>> THEN <<>>
        ELSE IF non_meta # <<>> THEN SubSeq(non_meta, 1, Min(limit, Len(non_meta)))
        ELSE SubSeq(subjects, 1, Min(limit, Len(subjects)))

MaintenanceBullet == BULLET \o " Primarily internal maintenance this voyage."

FallbackOpener(repo_name) ==
    "Arr matey, " \o repo_name \o "'s latest deployment just landed clean."

AsBullets(subjects) == [i \in 1..Len(subjects) |-> BULLET \o " " \o subjects[i]]

(* lines.extend(["", f"Commit: {commit_link}"]) when there is a link *)
WithCommitLink(lines, commit_link) ==
    IF commit_link # "" THEN lines \o <<"", "Commit: " \o commit_link>> ELSE lines

(* fallback_success_copy(repo_name, commits, commit_link) *)
fallback_success_copy(repo_name, commits, commit_link) ==
    LET opener == FallbackOpener(repo_name)
        subjects == select_notable_subjects(commits, 3)
        bullets == IF subjects = <<>> THEN <<MaintenanceBullet>> ELSE AsBullets(subjects)
        lines == <<opener, "">> \o bullets
    IN  Strip(Join("\n", WithCommitLink(lines, commit_link)))

(* Iterating a decoded value in a for loop: a list gives its items; a str  *)
(* or a dict gives characters or keys, none of which is a dict, so every   *)
(* one is skipped by the isinstance test; a number cannot be iterated.     *)
Iterable(j) == j.t # "num"
DictItems(j) == IF IsList(j) THEN SelectSeq(j.items, IsDict) ELSE <<>>

(* x.get(key, []) or [] *)
GetOrEmpty(j, key) ==
    LET v == Get(j, key) IN IF Falsy(v) THEN JList(<<>>) ELSE v

NonBlankStr(j) == IsStr(j) /\ Strip(j.s) # ""

(* extract_response_text, lines 164-175: the chunk one content part adds *)
PartChunk(part) ==
    LET value == Get(part, "value")
        text == Get(part, "text")
    IN  IF NonBlankStr(value) THEN <<Strip(value.s)>>
        ELSE IF NonBlankStr(text) THEN <<Strip(text.s)>>
        ELSE IF IsDict(text) /\ NonBlankStr(Get(text, "value")) THEN <<Strip(Get(text, "value").s)>>
        ELSE <<>>

RECURSIVE Flatten(_)
Flatten(seqs) == IF seqs = <<>> THEN <<>> ELSE Head(seqs) \o Flatten(Tail(seqs))

(* extract_response_text(response) *)
extract_response_text(response) ==
    IF ~IsDict(response) THEN Raise("AttributeError")
    ELSE LET direct == Get(response, "output_text")
             output == GetOrEmpty(response, "output")
             items == DictItems(output)
             contents == [i \in 1..Len(items) |-> GetOrEmpty(items[i], "content")]
             chunks == Flatten([i \in 1..Len(items) |->
                          LET parts == DictItems(contents[i])
                          IN  Flatten([k \in 1..Len(parts) |-> PartChunk(parts[k])])])
         IN  IF NonBlankStr(direct) THEN Ok(Strip(direct.s))
             ELSE IF ~Iterable(output) THEN Raise("TypeError")
             ELSE IF \E i \in 1..Len(items) : ~Iterable(contents[i]) THEN Raise("TypeError")
             ELSE Ok(Strip(Join("\n", chunks)))

FenceTagChars == UpperLetters \cup LowerLetters \cup Digits \cup {"_", "-"}

(* s without its longest prefix of characters of chars *)
DropWhile(s, chars) ==
    LET stops == {i \in 1..Len(s) : Char(s, i) \notin chars}
    IN  IF stops = {} THEN ""
        ELSE SubSeq(s, CHOOSE i \in stops : \A j \in stops : i <= j, Len(s))

(* The re.sub of line 180: an opening code fence line (three backquotes,   *)
(* a tag of letters, digits, "_" or "-", a newline) at the very start and  *)
(* a newline with a closing fence at the very end are removed.             *)
StripFences(text) ==
    LET afterTag == IF StartsWith(text, FENCE)
                    THEN DropWhile(SubSeq(text, 4, Len(text)), FenceTagChars) ELSE ""
        opened == IF StartsWith(text, FENCE) /\ StartsWith(afterTag, "\n")
                  THEN Tail(afterTag) ELSE text
    IN  IF EndsWith(opened, "\n" \o FENCE) THEN SubSeq(opened, 1, Len(opened) - 4) ELSE opened

HasUrl(line) == Contains(line, "http://") \/ Contains(line, "https://")

(* word followed by one or more whitespace characters and a digit *)
HasVersioned(s, word) ==
    \E i \in 1..(Len(s) - Len(word) + 1) :
        /\ SubSeq(s, i, i + Len(word) - 1) = word
        /\ LET rest == SubSeq(s, i + Len(word), Len(s))
               after == LStrip(rest)
           IN  after # rest /\ after # "" /\ IsDigit(Head(after))

(* re.search(r"captainhook\s+\d|openclaw\s+\d", opener.lower()) *)
ReservedOpener(opener) ==
    LET lowered == Lower(opener)
    IN  HasVersioned(lowered, "captainhook") \/ HasVersioned(lowered, "openclaw")

BulletPrefixChars == {BULLET, "-", "*", ".", ")"} \cup Digits \cup Spaces

(* sanitize_success_copy, lines 198-202: pad with fallback bullets *)
RECURSIVE PadBullets(_, _)
PadBullets(bullets, fallbacks) ==
    IF fallbacks = <<>> \/ Len(bullets) >= 3 THEN bullets
    ELSE PadBullets(IF InSeq(Head(fallbacks), bullets) THEN bullets
                    ELSE Append(bullets, Head(fallbacks)),
                    Tail(fallbacks))

(* sanitize_success_copy, lines 180-182 *)
RawLines(text) ==
    LET cleaned == StripFences(Strip(text))
        split == SplitLines(cleaned)
        stripped == SelectSeq([i \in 1..Len(split) |-> Strip(split[i])], LAMBDA l : l # "")
    IN  SelectSeq(stripped, LAMBDA l : ~HasUrl(l))

(* sanitize_success_copy, lines 191-196 *)
ModelBullets(raw_lines) ==
    LET texts == [i \in 1..Len(raw_lines) - 1 |->
                     Strip(DropWhile(raw_lines[i + 1], BulletPrefixChars))]
        kept == SelectSeq(texts, LAMBDA x : x # "")
    IN  AsBullets(kept)

(* sanitize_success_copy(text, fallback_opener, fallback_bullets) *)
sanitize_success_copy(text, fallback_opener, fallback_bullets) ==
    LET raw_lines == RawLines(text)
        opener == IF ReservedOpener(raw_lines[1]) THEN fallback_opener ELSE raw_lines[1]
        padded == PadBullets(ModelBullets(raw_lines), fallback_bullets)
        bullets == IF padded # <<>> THEN padded
                   ELSE IF fallback_bullets # <<>> THEN SubSeq(fallback_bullets, 1, 1)
                   ELSE <<MaintenanceBullet>>
    IN  IF raw_lines = <<>> THEN Raise("ValueError")
        ELSE Ok(Strip(Join("\n", <<opener, "">> \o SubSeq(bullets, 1, Min(3, Len(bullets))))))

(* What the generation service does with the request: no answer (network   *)
(* error or timeout), an HTTP error status, or a 2xx answer whose body is  *)
(* either not JSON or decodes to some JSON value.                          *)
ApiUnreachable == [kind |-> "unreachable"]
ApiHttpError == [kind |-> "http_error"]
ApiGarbage == [kind |-> "garbage"]
ApiJson(j) == [kind |-> "json", json |-> j]

(* render_success_with_openai, lines 273-288 *)
render_success_with_openai(api) ==
    IF api.kind = "unreachable" THEN Raise("URLError")
    ELSE IF api.kind = "http_error" THEN Raise("RuntimeError")
    ELSE IF api.kind = "garbage" THEN Raise("JSONDecodeError")
    ELSE LET text == extract_response_text(api.json)
         IN  IF text.exc # "none" THEN text
             ELSE IF text.val = "" THEN Raise("ValueError")
             ELSE text

(* generate_success_copy, lines 309-323: the try block; every Exception    *)
(* is caught by the handler below it.                                      *)
TryGenerate(repo_name, commits, api) ==
    LET fallback_bullets == AsBullets(select_notable_subjects(commits, 3))
        fallback_opener == FallbackOpener(repo_name)
        rendered == render_success_with_openai(api)
    IN  IF rendered.exc # "none" THEN rendered
        ELSE sanitize_success_copy(rendered.val, fallback_opener, fallback_bullets)

(* generate_success_copy whose exception handler does not return: the     *)
(* fallback text falls through to the lines that append the commit link.  *)
generate_success_copy_fallthrough(repo_name, commits, commit_link, openai_api_key, api) ==
    IF openai_api_key = "" THEN fallback_success_copy(repo_name, commits, commit_link)
    ELSE LET tried == TryGenerate(repo_name, commits, api)
             body == IF tried.exc # "none"
                     THEN fallback_success_copy(repo_name, commits, commit_link)
                     ELSE tried.val
         IN  Strip(Join("\n", WithCommitLink(<<body>>, commit_link)))

(* generate_success_copy(...) *)
generate_success_copy(repo_name, commits, commit_link, openai_api_key, api) ==
    IF openai_api_key = "" THEN fallback_success_copy(repo_name, commits, commit_link)
    ELSE LET body == TryGenerate(repo_name, commits, api)
         IN  IF body.exc # "none" THEN fallback_success_copy(repo_name, commits, commit_link)
             ELSE Strip(Join("\n", WithCommitLink(<<body.val>>, commit_link)))

(* generate_failure_copy(repo_name, branch, actor, run_url) *)
generate_failure_copy(repo_name, branch, actor, run_url) ==
    Strip(Join("\n", <<
        "Arr matey, rough seas " \o EMDASH \o " " \o repo_name \o " failed to deploy on "
            \o BACKQUOTE \o branch \o BACKQUOTE \o ".",
        "",
        BULLET \o " Build/deploy did not land.",
        BULLET \o " No feature notes posted for failed voyages.",
        BULLET \o " Triggered by: " \o actor,
        "",
        "Run: " \o run_url >>))

-----------------------------------------------------------------------------
(* Notifier                                                                *)

DISCORD_LIMIT == 1900

(* DiscordPayload without the slice *)
DiscordPayload_untruncated(content) == [content |-> content]

(* post_discord, line 345: the JSON body of the webhook request *)
DiscordPayload(content) == [content |-> Prefix(content, DISCORD_LIMIT)]

(* What the webhook does with the request: a 2xx answer, an HTTP error     *)
(* status, or no answer at all (network error or timeout).                 *)
WebhookAnswers == {"ok", "http_error", "unreachable"}

(* post_discord(webhook_url, content): the request it sends and the        *)
(* exception it ends with.  An HTTPError is logged and re-raised; any      *)
(* other error of urlopen is not caught at all.                            *)
post_discord(url, text, answer) ==
    [request |-> [to |-> "discord", url |-> url, payload |-> DiscordPayload(text)],
     exc |-> IF answer = "ok" THEN "none"
             ELSE IF answer = "http_error" THEN "HTTPError"
             ELSE "URLError"]

-----------------------------------------------------------------------------
(* Bounds and the inputs of one run                                        *)

(* Length of the over-long actor name and commit SHA, beyond DISCORD_LIMIT *)
LongLen == 2000

WebhookUrl == "https://discord.example/hook"

(* The process environment.  Names that the run does not vary are fixed. *)
Environments ==
    [CH_DISCORD_WEBHOOK_URL : {"", "  ", " " \o WebhookUrl},
     CH_OPENAI_API_KEY : {"", "sk-test"},
     CH_OPENAI_MODEL : {""},
     CH_STYLE_FILE : {"", "STYLE.md"},
     CH_MAX_COMMITS : {"", "1", "lots"},
     CH_JOB_STATUS : {"", " Success ", "failure"},
     GITHUB_REPOSITORY : {"acme/widget"},
     GITHUB_REF_NAME : {"main"},
     GITHUB_ACTOR : {"alice", Repeat("x", LongLen)},
     GITHUB_SHA : {"", "def4567 ", Repeat("a", LongLen)},
     GITHUB_SERVER_URL : {"https://github.com"},
     GITHUB_RUN_ID : {"7"},
     GITHUB_EVENT_PATH : {"", "/event.json"},
     GITHUB_ACTION_PATH : {"/action"}]

(* Payloads of the event file *)
EventPayloads ==
    {JList(<<>>),
     EmptyDict,
     JDict([before |-> JNum(7)]),
     JDict([before |-> JStr(ZeroSha)]),
     JDict([before |-> JStr(Repeat("0", 39))]),
     JDict([before |-> JStr(" abc1234 ")])}

EventFiles == {FileMissing, FileGarbage} \cup {FileJson(j) : j \in EventPayloads}

TextFile(text) == [exists |-> TRUE, valid |-> TRUE, text |-> text]
StyleFiles == {FileMissing, FileGarbage, TextFile("Speak like a pirate.")}
SoulFile == TextFile("Be brief.")

(* What git log prints when it does not fail: with --pretty=format: one    *)
(* line per commit, a newline between two commits and none at the end.     *)
(* A subject may itself hold a carriage return or the separator.           *)
GitStdouts ==
    {"",
     "abc1234^feat: add export^Bob\nbcd2345^Update CI pipeline^Al\ncde3456^fix: crash on save^Al\n"
        \o "def4567^Add login^Bob\nefa5678^Tidy docs^Bob",
     "abc1234^Update deploy workflow^Bob",
     "abc1234^Link docs to https://example.com/guide^Bob",
     "abc1234^Add login^",
     "abc1234^broken\rline^Bob\ndef5678^Fix ^ caret^Al"}

GitOutcomes == {GitFailed} \cup {GitPrinted(out) : out \in GitStdouts}

(* git log --max-count=n prints at most n commits *)
WithinMaxCount(proc, n) ==
    IF proc.failed \/ proc.stdout = "" THEN TRUE ELSE Len(Split(proc.stdout, "\n")) <= n

TextPart(text) == JDict([type |-> JStr("output_text"), text |-> JStr(text)])

(* Answers of the generation service *)
ApiOutcomes ==
    {ApiUnreachable, ApiHttpError, ApiGarbage,
     ApiJson(JList(<<>>)),
     ApiJson(JDict([output |-> JNum(5)])),
     ApiJson(EmptyDict),
     ApiJson(JDict([output_text |-> JStr("Details: https://only.example/notes")])),
     ApiJson(JDict([output_text |-> JStr("Ahoy, the export sails!")])),
     ApiJson(JDict([output_text |-> JStr("CaptainHook 2 report\n- Faster export")])),
     ApiJson(JDict([output |-> JList(<<JDict([content |-> JList(<<TextPart(
         FENCE \o "text\nAhoy!\n- Faster export\n- see https://x.io/notes\n* Fewer crashes\n"
         \o "4. More\n5. Extra\n" \o FENCE)>>)])>>)]))}

(* No request was made to the generation service *)
ApiNotCalled == [kind |-> "not_called"]

-----------------------------------------------------------------------------
(* One run of main()                                                       *)

VARIABLES
    environ,             \* os.environ
    event_file,          \* the file at GITHUB_EVENT_PATH
    style_file,          \* the file at CH_STYLE_FILE
    pc,                  \* position in main: start, config, context, collected, done, raised
    webhook_url, openai_api_key, openai_model, style_file_input, max_commits,
    repo, repo_name, branch, actor, before_sha, after_sha, run_url, job_status, soul,
    rev,                 \* the revision expression given to git log
    git_proc,            \* what the git log process did
    commits, latest_commit_link,
    api,                 \* what the generation service answered
    content,             \* the message given to post_discord
    http,                \* the HTTP requests sent so far, in order
    exc                  \* the exception main ended with, "none" otherwise

config == <<webhook_url, openai_api_key, openai_model, style_file_input, max_commits>>
context == <<repo, repo_name, branch, actor, before_sha, after_sha, run_url, job_status, soul>>
collected == <<rev, git_proc, commits, latest_commit_link>>
inputs == <<environ, event_file, style_file>>
vars == <<inputs, pc, config, context, collected, api, content, http, exc>>

Init ==
    /\ environ \in Environments
    /\ event_file \in EventFiles
    /\ style_file \in StyleFiles
    \* a file can only be there when its path is set
    /\ environ.GITHUB_EVENT_PATH = "" => event_file = FileMissing
    /\ environ.CH_STYLE_FILE = "" => style_file = FileMissing
    /\ pc = "start"
    /\ webhook_url = "" /\ openai_api_key = "" /\ openai_model = ""
    /\ style_file_input = "" /\ max_commits = 0
    /\ repo = "" /\ repo_name = "" /\ branch = "" /\ actor = ""
    /\ before_sha = "" /\ after_sha = "" /\ run_url = "" /\ job_status = "" /\ soul = ""
    /\ rev = "" /\ git_proc = GitFailed /\ commits = <<>> /\ latest_commit_link = ""
    /\ api = ApiNotCalled
    /\ content = ""
    /\ http = <<>>
    /\ exc = "none"

(* main, lines 369-373 *)
ReadConfig ==
    /\ pc = "start"
    /\ webhook_url' = env(environ, "CH_DISCORD_WEBHOOK_URL", "")
    /\ openai_api_key' = env(environ, "CH_OPENAI_API_KEY", "")
    /\ openai_model' = env(environ, "CH_OPENAI_MODEL", "gpt-4.1-mini")
    /\ style_file_input' = env(environ, "CH_STYLE_FILE", "")
    /\ max_commits' = to_int(env(environ, "CH_MAX_COMMITS", "8"), 8)
    /\ pc' = "config"
    /\ UNCHANGED <<inputs, context, collected, api, content, http, exc>>

(* main, lines 375-377: no webhook, nothing to do *)
SkipNotification ==
    /\ pc = "config"
    /\ webhook_url = ""
    /\ pc' = "done"
    /\ UNCHANGED <<inputs, config, context, collected, api, content, http, exc>>

(* main, lines 379-390.  read_event_before_sha is called after repo,       *)
(* repo_name, branch and actor are set; when it raises, main ends there.   *)
(* SoulFile is the SOUL.md of the directory GITHUB_ACTION_PATH names.      *)
ReadContext ==
    /\ pc = "config"
    /\ webhook_url # ""
    /\ repo' = env(environ, "GITHUB_REPOSITORY", "")
    /\ repo_name' = normalize_repo_name(repo')
    /\ branch' = env(environ, "GITHUB_REF_NAME", "")
    /\ actor' = env(environ, "GITHUB_ACTOR", "")
    /\ LET before == read_event_before_sha(environ, event_file)
       IN  IF before.exc # "none"
           THEN /\ pc' = "raised"
                /\ exc' = before.exc
                /\ UNCHANGED <<before_sha, after_sha, run_url, job_status, soul>>
           ELSE /\ before_sha' = before.val
                /\ after_sha' = env(environ, "GITHUB_SHA", "")
                /\ run_url' = env(environ, "GITHUB_SERVER_URL", "") \o "/" \o repo'
                                \o "/actions/runs/" \o env(environ, "GITHUB_RUN_ID", "")
                /\ job_status' = Lower(env(environ, "CH_JOB_STATUS", "unknown"))
                /\ soul' = read_soul(style_file_input, style_file, SoulFile)
                /\ pc' = "context"
                /\ exc' = exc
    /\ UNCHANGED <<inputs, config, collected, api, content, http>>

(* main, lines 392-393 *)
CollectCommits ==
    /\ pc = "context"
    /\ \E proc \in GitOutcomes :
        /\ WithinMaxCount(proc, max_commits)
        /\ git_proc' = proc
        /\ commits' = build_commits(proc)
    /\ rev' = RevExpr(before_sha, after_sha)
    /\ latest_commit_link' = commit_url(repo, after_sha)
    /\ pc' = "collected"
    /\ UNCHANGED <<inputs, config, context, api, content, http, exc>>

(* main, the end of a run at post_discord: its exception leaves main *)
Post(text, answer) ==
    LET posted == post_discord(webhook_url, text, answer)
    IN  /\ http' = Append(http, posted.request)
        /\ exc' = posted.exc
        /\ pc' = IF posted.exc = "none" THEN "done" ELSE "raised"

(* render_success_with_openai, lines 221-272: the request to the service *)
OpenAiRequest ==
    [to |-> "openai",
     url |-> "https://api.openai.com/v1/responses",
     payload |-> [model |-> openai_model,
                  max_output_tokens |-> IF StartsWith(openai_model, "gpt-5") THEN 500 ELSE 220,
                  style |-> "SOUL.md (style contract):\n\n"
                               \o (IF soul = "" THEN "(No SOUL provided)" ELSE soul),
                  input |-> [repo |-> repo, repo_name |-> repo_name, branch |-> branch,
                             actor |-> actor, commits |-> commits]]]

(* NotifyFailure asking the generation service before it posts *)
NotifyFailure_generating ==
    /\ pc = "collected"
    /\ job_status # "success"
    /\ content' = generate_failure_copy(repo_name, branch, actor, run_url)
    /\ \E answer \in WebhookAnswers :
        LET posted == post_discord(webhook_url, content', answer)
        IN  /\ http' = (IF openai_api_key = "" THEN http ELSE Append(http, OpenAiRequest))
                         \o <<posted.request>>
            /\ exc' = posted.exc
            /\ pc' = IF posted.exc = "none" THEN "done" ELSE "raised"
    /\ UNCHANGED <<inputs, config, context, collected, api>>

(* main, lines 395-403: the job did not succeed *)
NotifyFailure ==
    /\ pc = "collected"
    /\ job_status # "success"
    /\ content' = generate_failure_copy(repo_name, branch, actor, run_url)
    /\ \E answer \in WebhookAnswers : Post(content', answer)
    /\ UNCHANGED <<inputs, config, context, collected, api>>

(* main, lines 405-416: the job succeeded.  The generation service is      *)
(* asked only when there is a credential (generate_success_copy, line 306) *)
NotifySuccess ==
    /\ pc = "collected"
    /\ job_status = "success"
    /\ \E a \in IF openai_api_key = "" THEN {ApiNotCalled} ELSE ApiOutcomes :
        /\ api' = a
        /\ content' = generate_success_copy(repo_name, commits, latest_commit_link,
                                            openai_api_key, a)
    /\ \E answer \in WebhookAnswers :
        LET posted == post_discord(webhook_url, content', answer)
        IN  /\ http' = (IF openai_api_key = "" THEN http ELSE Append(http, OpenAiRequest))
                          \o <<posted.request>>
            /\ exc' = posted.exc
            /\ pc' = IF posted.exc = "none" THEN "done" ELSE "raised"
    /\ UNCHANGED <<inputs, config, context, collected>>

Next ==
    \/ ReadConfig
    \/ SkipNotification
    \/ ReadContext
    \/ CollectCommits
    \/ NotifyFailure
    \/ NotifySuccess

Spec == Init /\ [][Next]_vars

-----------------------------------------------------------------------------
(* Properties                                                              *)

Ended == pc \in {"done", "raised"}

Blank(s) == \A i \in 1..Len(s) : IsSpace(Char(s, i))

(* The job status of the environment, trimmed and lower-cased, is "success" *)
StatusIsSuccess == Lower(Strip(environ.CH_JOB_STATUS)) = "success"

DiscordRequests == SelectSeq(http, LAMBDA r : r.to = "discord")
OpenAiRequests == SelectSeq(http, LAMBDA r : r.to = "openai")

(* C1: when CH_DISCORD_WEBHOOK_URL is unset, empty or only whitespace, the *)
(* run sends no HTTP request at all (neither to the generation service nor *)
(* to the webhook) and ends normally, never with an exception, whatever    *)
(* the other inputs are.                                                   *)
C1_NoWebhookNoHttp ==
    Blank(environ.CH_DISCORD_WEBHOOK_URL) =>
        /\ http = <<>>
        /\ exc = "none"
        /\ pc \in {"start", "config", "done"}

(* A run without webhook ended although the job succeeded, a credential    *)
(* was set and the event file would have been read.                        *)
C1_Witness ==
    /\ pc = "done"
    /\ environ.CH_DISCORD_WEBHOOK_URL = "  "
    /\ environ.CH_OPENAI_API_KEY # ""
    /\ StatusIsSuccess
    /\ event_file = FileJson(JList(<<>>))

(* C2: main ends with an exception only when the webhook POST itself       *)
(* failed: no optional input (environment, style file, event file of any   *)
(* content), no failure of git and no failure of the generation service    *)
(* makes it raise before the POST, and an unusable event file leaves the   *)
(* empty "before" revision.                                                *)
C2_RaisesOnlyAtPost ==
    /\ pc = "raised" => (http # <<>> /\ http[Len(http)].to = "discord")
    /\ pc \in {"context", "collected"} /\ (~event_file.exists \/ ~event_file.valid)
           => before_sha = ""

(* The generation outcomes of ApiOutcomes that are failures: no answer, an *)
(* HTTP error, a body that is not JSON, JSON of an unexpected shape, no    *)
(* text, or a text with no usable line.                                    *)
FailedAnswers ==
    {ApiUnreachable, ApiHttpError, ApiGarbage,
     ApiJson(JList(<<>>)),
     ApiJson(JDict([output |-> JNum(5)])),
     ApiJson(EmptyDict),
     ApiJson(JDict([output_text |-> JStr("Details: https://only.example/notes")]))}

(* C3: with a credential, whenever the generative path fails at any stage, *)
(* the success message is exactly the deterministic fallback message for   *)
(* the same repository name, commits and commit link, which is also what   *)
(* the same inputs give without a credential.                              *)
C3_FailureFallsBack ==
    (Ended /\ openai_api_key # "" /\ api \in FailedAnswers) =>
        /\ content = fallback_success_copy(repo_name, commits, latest_commit_link)
        /\ content = generate_success_copy(repo_name, commits, latest_commit_link,
                                           "", ApiNotCalled)

(* A generation failure on a run that has commits and a commit link *)
C3_Witness ==
    /\ pc = "done"
    /\ openai_api_key # ""
    /\ api = ApiGarbage
    /\ Len(commits) > 1
    /\ latest_commit_link # ""

(* The failure notice written out: opener naming repository and branch,    *)
(* the three fixed bullets with the actor, and the run link.               *)
FailureNotice ==
    "Arr matey, rough seas " \o EMDASH \o " " \o repo_name \o " failed to deploy on "
        \o BACKQUOTE \o Strip(environ.GITHUB_REF_NAME) \o BACKQUOTE \o ".\n\n"
    \o BULLET \o " Build/deploy did not land.\n"
    \o BULLET \o " No feature notes posted for failed voyages.\n"
    \o BULLET \o " Triggered by: " \o Strip(environ.GITHUB_ACTOR) \o "\n\n"
    \o "Run: " \o environ.GITHUB_SERVER_URL \o "/" \o environ.GITHUB_REPOSITORY
    \o "/actions/runs/" \o environ.GITHUB_RUN_ID

(* C4: when the job status is anything but "success" (unset included), the *)
(* generation service is never called, and the message posted is the fixed *)
(* failure notice naming branch, actor and run link, with no commit        *)
(* subject in it, whatever the credential and the commits are.             *)
C4_FailureNoticeOnly ==
    (~StatusIsSuccess) =>
        /\ OpenAiRequests = <<>>
        /\ api = ApiNotCalled
        /\ \A i \in 1..Len(http) :
              /\ content = FailureNotice
              /\ http[i].payload.content = Prefix(FailureNotice, 1900)
              /\ Len(content) <= 1900 =>
                    \A k \in 1..Len(commits) :
                        commits[k].subject # "" => ~Contains(content, commits[k].subject)

(* A failed job was notified although a credential and commits were there *)
C4_Witness ==
    /\ pc = "done"
    /\ ~StatusIsSuccess
    /\ openai_api_key # ""
    /\ Len(commits) > 1
    /\ Len(DiscordRequests) = 1

(* C5: the content field of every webhook request has at most 1900         *)
(* characters, on every path, and a message of at most 1900 characters is  *)
(* sent unchanged.                                                         *)
C5_ContentCapped ==
    \A i \in 1..Len(http) :
        http[i].to = "discord" =>
            /\ Len(http[i].payload.content) <= 1900
            /\ Len(content) <= 1900 => http[i].payload.content = content
            /\ Len(content) > 1900 => http[i].payload.content = SubSeq(content, 1, 1900)

(* A generated success message with its commit link was longer than the    *)
(* limit and was posted.                                                   *)
C5_Witness ==
    /\ pc = "done"
    /\ openai_api_key # ""
    /\ api \in ApiOutcomes \ FailedAnswers
    /\ Len(content) > 1900
    /\ Len(DiscordRequests) = 1

(* C6: a run with a webhook URL makes exactly one webhook POST, as its     *)
(* last outbound request, never a second one, and a POST that fails ends   *)
(* main with that error.                                                   *)
C6_ExactlyOnePost ==
    (Ended /\ webhook_url # "") =>
        /\ Len(DiscordRequests) = 1
        /\ http[Len(http)].to = "discord"
        /\ pc = "raised" <=> exc \in {"HTTPError", "URLError"}

(* The 40-zero SHA of a push that has no previous revision *)
AllZeroSha == "0000000000000000000000000000000000000000"

(* "before" and "after" both name a revision *)
BothKnown == before_sha # "" /\ before_sha # AllZeroSha /\ after_sha # ""

(* C7: the revision expression given to git log is the range               *)
(* "before..after" exactly when before is not empty, not the 40-zero SHA   *)
(* and after is not empty; otherwise it is after alone when after is not   *)
(* empty, and "HEAD" when it is.                                           *)
C7_RevExpression ==
    rev # "" =>
        /\ rev = before_sha \o ".." \o after_sha <=> BothKnown
        /\ (~BothKnown /\ after_sha # "") => rev = after_sha
        /\ after_sha = "" => rev = "HEAD"

(* The all-zero "before" of a first push gave a single-revision query *)
C7_Witness ==
    /\ pc = "collected"
    /\ before_sha = AllZeroSha
    /\ after_sha = "def4567"
    /\ rev = "def4567"

(* The records of the lines of out that have exactly three fields *)
ThreeFieldRecords(out) ==
    LET lines == SplitLines(out)
        good == SelectSeq(lines, LAMBDA l : Len(Split(l, US)) = 3)
    IN  [i \in 1..Len(good) |->
            LET f == Split(good[i], US)
            IN  [short_sha |-> Strip(f[1]), subject |-> Strip(f[2]), author |-> Strip(f[3])]]

(* C8: build_commits never raises; when git log fails it returns the empty *)
(* list, and when git log succeeds it returns, in order, one record for    *)
(* each line of the output that has exactly three fields and nothing for   *)
(* any other line.                                                         *)
C8_OneRecordPerLine ==
    rev # "" =>
        /\ pc = "collected" => exc = "none"
        /\ git_proc.failed => commits = <<>>
        /\ ~git_proc.failed => commits = ThreeFieldRecords(git_proc.stdout)

(* A success message was written without the generation service *)
Deterministic == Ended /\ content # "" /\ job_status = "success" /\ openai_api_key = ""

(* C9: in deterministic mode the message has the header "<Name> - update"  *)
(* (with a dash) built from the repository name, a "Features" section with *)
(* every feat-prefixed subject, a "Fixes / Improvements" section with      *)
(* every other subject, and a statistics line at the end.                  *)
C9_SectionedMessage ==
    Deterministic =>
        LET lines == SplitLines(content)
            feats == {k \in 1..Len(commits) : StartsWith(commits[k].subject, "feat")}
        IN  /\ lines[1] = repo_name \o " " \o EMDASH \o " update"
            /\ feats # {} => InSeq("Features", lines)
            /\ feats # DOMAIN commits => InSeq("Fixes / Improvements", lines)
            /\ Contains(lines[Len(lines)], "files changed")

MetaWords == {"deploy", "workflow", "actions", "ci", "discord", "webhook", "runner", "pipeline"}

(* C9 (amended): in deterministic mode the message is the opener           *)
(* "Arr matey, <Name>'s latest deployment just landed clean." with the     *)
(* normalised repository name ("Widget" for acme/widget), an empty line,   *)
(* and one bullet for each of the first three commit subjects that contain *)
(* no meta keyword (the first three subjects when every subject contains   *)
(* one, the single bullet "Primarily internal maintenance this voyage."    *)
(* when there is no subject), followed by an empty line and                *)
(* "Commit: <link>" when repository and SHA are known; it has no header,   *)
(* no section and no statistics line.                                      *)
C9_PirateFallback ==
    Deterministic =>
        LET subjects == SelectSeq([k \in 1..Len(commits) |-> commits[k].subject],
                                  LAMBDA x : x # "")
            plain == SelectSeq(subjects,
                               LAMBDA x : \A w \in MetaWords : ~Contains(Lower(x), w))
            pool == IF plain # <<>> THEN plain ELSE subjects
            shown == SubSeq(pool, 1, Min(3, Len(pool)))
            bullets == IF shown = <<>>
                       THEN <<BULLET \o " Primarily internal maintenance this voyage.">>
                       ELSE [k \in 1..Len(shown) |-> BULLET \o " " \o shown[k]]
            link == IF latest_commit_link = "" THEN <<>>
                    ELSE <<"", "Commit: " \o latest_commit_link>>
            opener == "Arr matey, " \o repo_name \o "'s latest deployment just landed clean."
        IN  /\ environ.GITHUB_REPOSITORY = "acme/widget" => repo_name = "Widget"
            /\ content = Join("\n", <<opener, "">> \o bullets \o link)
            /\ latest_commit_link # "" <=> (repo # "" /\ after_sha # "")

(* A deterministic message for five commits, one of them a meta commit *)
C9_Witness ==
    /\ pc = "done"
    /\ Deterministic
    /\ Len(commits) = 5
    /\ latest_commit_link # ""

(* The lines of the success message before the appended commit link *)
BodyLines ==
    LET lines == SplitLines(content)
    IN  IF latest_commit_link # "" THEN SubSeq(lines, 1, Len(lines) - 2) ELSE lines

(* C10: when the generative path succeeds, the body is an opener line,     *)
(* an empty line and one to three bullet lines each starting with the      *)
(* bullet and a space, and no line of it contains "http://" or "https://", *)
(* for every model text and every list of commit subjects; the only link   *)
(* of the message is the appended "Commit:" line.                          *)
C10_BodyShape ==
    (Ended /\ openai_api_key # "" /\ api \in ApiOutcomes \ FailedAnswers) =>
        /\ Len(BodyLines) \in 3..5
        /\ BodyLines[1] # "" /\ BodyLines[2] = ""
        /\ \A i \in 3..Len(BodyLines) : StartsWith(BodyLines[i], BULLET \o " ")
        /\ \A i \in 1..Len(BodyLines) : ~HasUrl(BodyLines[i])

====
